---------------------------- MODULE Spec2Model ----------------------------
(***************************************************************************)
(* CSV-to-graph pipelines of the profiling scripts.                        *)
(*                                                                         *)
(*   SC1_profiling_lists.py            list variant   (script = "lists")   *)
(*   SC2_profiling_pandas_dataframe.py dataframe variant (script="pandas") *)
(*                                                                         *)
(* A CSV file is a sequence of lines, each line a tuple of text fields.    *)
(* Python values are records [k, s]: k is the type ("str", "num", "nan"),  *)
(* s the text of the value; dictionaries are functions from key text to    *)
(* such values.  The directed graph is the pair of the node attribute map  *)
(* and the edge attribute map of networkx.                                 *)
(***************************************************************************)
EXTENDS Integers, Sequences, FiniteSets, TLC

VARIABLES
    script,              \* which script's pipeline runs
    nodes_file,          \* the nodes CSV on disk: [exists, lines]
    edges_file,          \* the edges CSV on disk: [exists, lines]
    header_nodes,        \* create_lists(header_nodes=...)
    header_edges,        \* create_lists(header_edges=...)
    mapping_properties,  \* to_networkx_*_format(mapping_properties=...)
    pc,                  \* position of the run
    fh,                  \* state of the file handle of each load_csv_generator
    pos,                 \* number of lines each csv reader has consumed
    nodes_list,          \* SC1 list_nodes / nodes_list
    edges_list,          \* SC1 list_edges / edges_list
    nodes_df,            \* SC2 nodes_df (raw table)
    edges_df,            \* SC2 edges_df (raw table)
    networkx_nodes_df,   \* SC2 result of df_to_networkx_nodes
    networkx_edges_df,   \* SC2 result of df_to_networkx_edges
    nx_nodes,            \* the (id, properties) pairs add_nodes_from has taken, in order
    nx_edges,            \* the (source, target, properties) triples add_edges_from has taken
    ni,                  \* number of node rows the graph step has consumed
    ei,                  \* number of edge rows the graph step has consumed
    graph,               \* the nx graph object being populated
    err,                 \* the exception that left the pipeline, "" if none
    returned,            \* TRUE once pipeline has returned its triple
    first_graph,         \* the graph as the first assembly left it (set on rebuild)
    columns_to_keep_intact, \* df_to_networkx_*(columns_to_keep_intact=...) of a direct call
    column_names_dict,   \* df_to_networkx_*(column_names_dict=...) of a direct call
    default_graph,       \* the nx.DiGraph() each graph function holds as default graph_type
    ncalls               \* number of direct calls of the graph functions so far

vars == <<script, nodes_file, edges_file, header_nodes, header_edges,
          mapping_properties, pc, fh, pos, nodes_list, edges_list, nodes_df,
          edges_df, networkx_nodes_df, networkx_edges_df, nx_nodes, nx_edges, ni, ei, graph, err, returned,
          first_graph, columns_to_keep_intact, column_names_dict, default_graph, ncalls>>

-----------------------------------------------------------------------------
(* Bounds of the model *)

MaxNodeRows == 2
MaxEdgeRows == 2
MaxCalls == 2

-----------------------------------------------------------------------------
(* Python values *)

Str(x) == [k |-> "str", s |-> x]
Num(x) == [k |-> "num", s |-> x]
NaN    == [k |-> "nan", s |-> ""]

EmptyDict == [x \in {} |-> NaN]

\* dict.update / {**d, **e}: the keys of both, the right-hand value on a
\* collision
DictUpdate(d, e) ==
    [x \in DOMAIN d \cup DOMAIN e |-> IF x \in DOMAIN e THEN e[x] ELSE d[x]]

\* d[key] = value
DictSet(d, key, value) == DictUpdate(d, [x \in {key} |-> value])

-----------------------------------------------------------------------------
(* ast.literal_eval on the text of a properties field                      *)

Tok(k, s) == [k |-> k, s |-> s]
LBrace == Tok("punct", "{")
RBrace == Tok("punct", "}")
Colon  == Tok("punct", ":")
Comma  == Tok("punct", ",")

\* The tokens of the property texts of the model's datasets; any other text
\* is a bare name, which is no literal.
Lex(text) ==
    CASE text = "{}" -> <<LBrace, RBrace>>
      [] text = "{'a': 1}" -> <<LBrace, Tok("str", "a"), Colon, Tok("num", "1"), RBrace>>
      [] text = "{'a': 2}" -> <<LBrace, Tok("str", "a"), Colon, Tok("num", "2"), RBrace>>
      [] text = "{'b': 2}" -> <<LBrace, Tok("str", "b"), Colon, Tok("num", "2"), RBrace>>
      [] text = "{'label': 2}" ->
            <<LBrace, Tok("str", "label"), Colon, Tok("num", "2"), RBrace>>
      [] text = "{'a': 1, 'a': 2}" ->
            <<LBrace, Tok("str", "a"), Colon, Tok("num", "1"), Comma,
              Tok("str", "a"), Colon, Tok("num", "2"), RBrace>>
      [] text = "{'a': 1" -> <<LBrace, Tok("str", "a"), Colon, Tok("num", "1")>>
      [] text = "5" -> <<Tok("num", "5")>>
      [] text = "" -> <<>>
      [] OTHER -> <<Tok("name", text)>>

DecodeError == [kind |-> "error", d |-> EmptyDict]
Decoded(d)  == [kind |-> "dict", d |-> d]
Scalar      == [kind |-> "scalar", d |-> EmptyDict]

IsLiteralTok(t) == t.k \in {"str", "num"}

\* the items of a dict display from token i on: key ":" value, then "," or "}"
RECURSIVE ParseItems(_, _, _)
ParseItems(toks, i, d) ==
    IF i + 3 > Len(toks) THEN DecodeError
    ELSE IF ~(IsLiteralTok(toks[i]) /\ toks[i+1] = Colon /\ IsLiteralTok(toks[i+2]))
    THEN DecodeError
    ELSE LET d2 == DictSet(d, toks[i].s, toks[i+2])
         IN  IF toks[i+3] = RBrace
             THEN (IF i + 3 = Len(toks) THEN Decoded(d2) ELSE DecodeError)
             ELSE IF toks[i+3] = Comma THEN ParseItems(toks, i + 4, d2)
             ELSE DecodeError

literal_eval_lenient(text) ==
    LET toks == Lex(text)
    IN  IF toks = <<>> THEN Decoded(EmptyDict)
        ELSE IF toks[1] = LBrace
        THEN (IF Len(toks) = 2 /\ toks[2] = RBrace THEN Decoded(EmptyDict)
              ELSE LET r == ParseItems(toks, 2, EmptyDict)
                   IN  IF r.kind = "error" THEN Decoded(EmptyDict) ELSE r)
        ELSE IF Len(toks) = 1 /\ IsLiteralTok(toks[1]) THEN Scalar
        ELSE Decoded(EmptyDict)

literal_eval(text) ==
    LET toks == Lex(text)
    IN  IF toks = <<>> THEN DecodeError
        ELSE IF toks[1] = LBrace
        THEN (IF Len(toks) = 2 /\ toks[2] = RBrace THEN Decoded(EmptyDict)
              ELSE ParseItems(toks, 2, EmptyDict))
        ELSE IF Len(toks) = 1 /\ IsLiteralTok(toks[1]) THEN Scalar
        ELSE DecodeError

-----------------------------------------------------------------------------
(* The datasets *)

Missing   == [exists |-> FALSE, lines |-> <<>>]
EmptyFile == [exists |-> TRUE, lines |-> <<>>]
FileOf(header, rows) == [exists |-> TRUE, lines |-> <<header>> \o rows]

\* a line holding a field longer than csv.field_size_limit(): csv.reader
\* raises csv.Error on it; pandas has no such limit and reads one long field
Oversize == <<"<field larger than field limit>">>

NodeHeader(style) ==
    IF style = "reserved" THEN <<"UniProt ID", "node_label", "properties">>
    ELSE <<"UniProt ID", "label", "properties">>

EdgeHeader(style) ==
    IF style = "reserved"
    THEN <<"edge_id", "Source ID", "Target ID", "edge_label", "properties">>
    ELSE <<"id", "Source ID", "Target ID", "label", "properties">>

HeaderStyles == {"reserved", "plain"}

NodeRows ==
    { <<"P1", "p", "{'a': 1}">>,
      <<"P1", "q", "{'b': 2}">>,
      <<"P2", "7", "{'a': 2}">>,
      <<"P2", "p", "{'a': 1">>,
      <<"3", "p">> }

EdgeRows ==
    { <<"e1", "P1", "P2", "l", "{'a': 1}">>,
      <<"e2", "P1", "P2", "m", "{'b': 2}">>,
      <<"e3", "P2", "3", "l", "{}">>,
      <<"e4", "P1", "P2", "l", "oops">>,
      <<"e5", "P1", "P2", "l">>,
      Oversize }

SeqsUpTo(S, n) == UNION {[1..k -> S] : k \in 0..n}

NodeFiles(styles) ==
    {Missing, EmptyFile} \cup
    {FileOf(NodeHeader(st), rows) : st \in styles, rows \in SeqsUpTo(NodeRows, MaxNodeRows)}

EdgeFiles(st) ==
    {Missing, EmptyFile} \cup
    {FileOf(EdgeHeader(st), rows) : rows \in SeqsUpTo(EdgeRows, MaxEdgeRows)}

\* the header style of a nodes file; the two files of a dataset share it
StyleOf(file) ==
    IF file.lines # <<>> /\ file.lines[1] = NodeHeader("plain") THEN "plain" ELSE "reserved"

-----------------------------------------------------------------------------
(* networkx.DiGraph *)

EmptyGraph == [node |-> [x \in {} |-> EmptyDict], adj |-> [x \in {} |-> <<>>]]

Put(f, key, value) == (key :> value) @@ f

\* the class of the graph object pipeline passes as graph_type
GraphTypeMulti == "MultiDiGraph"

GraphType == "DiGraph"

\* one pass of the loop of add_nodes_from, for the pair (n, ndict)
add_node_keep_old(g, n, ndict) ==
    IF n \in DOMAIN g.node THEN g
    ELSE [g EXCEPT !.node = Put(g.node, n, DictUpdate(EmptyDict, ndict))]

add_node_replace(g, n, ndict) ==
    [g EXCEPT !.node = Put(g.node, n, DictUpdate(EmptyDict, ndict))]

add_node(g, n, ndict) ==
    LET newdict == DictUpdate(EmptyDict, ndict)
        old     == IF n \in DOMAIN g.node THEN g.node[n] ELSE EmptyDict
    IN  [g EXCEPT !.node = Put(g.node, n, DictUpdate(old, newdict))]

\* the endpoints of a new edge are created with empty attributes when absent
touch_node(g, n) ==
    IF n \in DOMAIN g.node THEN g ELSE [g EXCEPT !.node = Put(g.node, n, EmptyDict)]

\* one pass of the loop of add_edges_from, for the triple (u, v, dd)
add_edge_replace(g, u, v, dd) ==
    LET g2 == touch_node(touch_node(g, u), v)
    IN  [g2 EXCEPT !.adj = Put(g2.adj, <<u, v>>, <<dd>>)]

add_edge(g, u, v, dd) ==
    LET g2 == touch_node(touch_node(g, u), v)
        e  == <<u, v>>
    IN  IF GraphType = "DiGraph"
        THEN LET datadict == IF e \in DOMAIN g2.adj THEN g2.adj[e][1] ELSE EmptyDict
             IN  [g2 EXCEPT !.adj = Put(g2.adj, e, <<DictUpdate(datadict, dd)>>)]
        ELSE LET old == IF e \in DOMAIN g2.adj THEN g2.adj[e] ELSE <<>>
             IN  [g2 EXCEPT !.adj = Put(g2.adj, e, Append(old, dd))]

-----------------------------------------------------------------------------
(* SC1: load_csv_generator and create_lists *)

File(f)   == IF f = "nodes" THEN nodes_file ELSE edges_file
Header(f) == IF f = "nodes" THEN header_nodes ELSE header_edges
PcOpen(f)   == IF f = "nodes" THEN "open_nodes" ELSE "open_edges"
PcHeader(f) == IF f = "nodes" THEN "header_nodes" ELSE "header_edges"
PcRows(f)   == IF f = "nodes" THEN "rows_nodes" ELSE "rows_edges"

Raise(e) == /\ err' = e
            /\ pc' = "raised"

\* what leaving the with block does to the handle
ExitWithLeak(f) == fh

ExitWith(f) == [fh EXCEPT ![f] = "closed"]

ListVars == <<nodes_list, edges_list>>
DfVars == <<nodes_df, edges_df, networkx_nodes_df, networkx_edges_df>>
InputVars == <<script, nodes_file, edges_file, header_nodes, header_edges, mapping_properties>>
GraphVars == <<nx_nodes, nx_edges, ni, ei, graph, returned, first_graph>>
CallVars == <<columns_to_keep_intact, column_names_dict, default_graph, ncalls>>

\* the first next() on the generator: open(file_path, "r")
OpenFileAtCall(f) ==
    /\ script = "lists"
    /\ pc = PcOpen(f)
    /\ IF ~File(f).exists
       THEN /\ Raise("file")
            /\ UNCHANGED fh
       ELSE /\ fh' = [g \in {"nodes", "edges"} |->
                        IF g = f \/ File(g).exists THEN "open" ELSE fh[g]]
            /\ pc' = IF Header(f) THEN PcHeader(f) ELSE PcRows(f)
            /\ UNCHANGED err
    /\ UNCHANGED <<InputVars, CallVars, pos, ListVars, DfVars, GraphVars>>

OpenFile(f) ==
    /\ script = "lists"
    /\ pc = PcOpen(f)
    /\ IF ~File(f).exists
       THEN /\ Raise("file")
            /\ UNCHANGED fh
       ELSE /\ fh' = [fh EXCEPT ![f] = "open"]
            /\ pc' = IF Header(f) THEN PcHeader(f) ELSE PcRows(f)
            /\ UNCHANGED err
    /\ UNCHANGED <<InputVars, CallVars, pos, ListVars, DfVars, GraphVars>>

\* if header: next(reader)
SkipHeader(f) ==
    /\ pc = PcHeader(f)
    /\ IF File(f).lines = <<>>
       THEN \* StopIteration inside a generator becomes RuntimeError
            /\ Raise("header")
            /\ fh' = ExitWith(f)
            /\ UNCHANGED pos
       ELSE IF File(f).lines[1] = Oversize
       THEN /\ Raise("read")
            /\ fh' = ExitWith(f)
            /\ UNCHANGED pos
       ELSE /\ pos' = [pos EXCEPT ![f] = 1]
            /\ pc' = PcRows(f)
            /\ UNCHANGED <<fh, err>>
    /\ UNCHANGED <<InputVars, CallVars, ListVars, DfVars, GraphVars>>

\* for row in reader: yield tuple(row), taken by the list comprehension
YieldRow(f) ==
    /\ pc = PcRows(f)
    /\ pos[f] < Len(File(f).lines)
    /\ LET row == File(f).lines[pos[f] + 1]
       IN  IF row = Oversize
           THEN /\ Raise("read")
                /\ fh' = ExitWith(f)
                /\ UNCHANGED <<pos, ListVars>>
           ELSE /\ pos' = [pos EXCEPT ![f] = @ + 1]
                /\ IF f = "nodes"
                   THEN nodes_list' = Append(nodes_list, row) /\ UNCHANGED edges_list
                   ELSE edges_list' = Append(edges_list, row) /\ UNCHANGED nodes_list
                /\ UNCHANGED <<fh, err, pc>>
    /\ UNCHANGED <<InputVars, CallVars, DfVars, GraphVars>>

\* the reader is exhausted: the with block and the generator end; after the
\* edges, create_lists returns and networkx_graph_from_lists starts on the
\* fresh nx.DiGraph() pipeline passes
ReaderExhausted(f) ==
    /\ pc = PcRows(f)
    /\ pos[f] = Len(File(f).lines)
    /\ fh' = ExitWith(f)
    /\ pc' = IF f = "nodes" THEN PcOpen("edges") ELSE "add_edges"
    /\ UNCHANGED <<InputVars, CallVars, pos, err, ListVars, DfVars, GraphVars>>

-----------------------------------------------------------------------------
(* SC1: to_networkx_nodes_format, to_networkx_edges_format and             *)
(* networkx_graph_from_lists                                               *)

Yield(rec, isdict) == [err |-> "", rec |-> rec, isdict |-> isdict]
Throw(e) == [err |-> e, rec |-> <<>>, isdict |-> FALSE]

\* one pass of the loop of to_networkx_nodes_format
NodeRecordPlainKey(row, mapping) ==
    IF Len(row) # 3 THEN Throw("malformed")
    ELSE LET dec == literal_eval(row[3])
         IN  IF dec.kind = "error" THEN Throw("decode")
             ELSE IF mapping
             THEN (IF dec.kind = "scalar" THEN Throw("type")
                   ELSE Yield(<<Str(row[1]), DictSet(dec.d, "label", Str(row[2]))>>, TRUE))
             ELSE Yield(<<Str(row[1]), dec.d>>, dec.kind = "dict")

NodeRecord(row, mapping) ==
    IF Len(row) # 3 THEN Throw("malformed")
    ELSE LET dec == literal_eval(row[3])
         IN  IF dec.kind = "error" THEN Throw("decode")
             ELSE IF mapping
             THEN (IF dec.kind = "scalar" THEN Throw("type")
                   ELSE Yield(<<Str(row[1]), DictSet(dec.d, "node_label", Str(row[2]))>>, TRUE))
             ELSE Yield(<<Str(row[1]), dec.d>>, dec.kind = "dict")

EdgeRecordNoUnpackCheck(row, mapping) ==
    IF Len(row) < 4 THEN Throw("malformed")
    ELSE LET dec == literal_eval(row[Len(row)])
         IN  IF dec.kind = "error" THEN Throw("decode")
             ELSE IF mapping
             THEN (IF dec.kind = "scalar" THEN Throw("type")
                   ELSE Yield(<<Str(row[2]), Str(row[3]),
                                DictSet(DictSet(dec.d, "edge_id", Str(row[1])),
                                        "edge_label", Str(row[4]))>>, TRUE))
             ELSE Yield(<<Str(row[2]), Str(row[3]), dec.d>>, dec.kind = "dict")

\* one pass of the loop of to_networkx_edges_format
EdgeRecord(row, mapping) ==
    IF Len(row) # 5 THEN Throw("malformed")
    ELSE LET dec == literal_eval(row[5])
         IN  IF dec.kind = "error" THEN Throw("decode")
             ELSE IF mapping
             THEN (IF dec.kind = "scalar" THEN Throw("type")
                   ELSE Yield(<<Str(row[2]), Str(row[3]),
                                DictSet(DictSet(dec.d, "edge_id", Str(row[1])),
                                        "edge_label", Str(row[4]))>>, TRUE))
             ELSE Yield(<<Str(row[2]), Str(row[3]), dec.d>>, dec.kind = "dict")

\* networkx_graph.add_edges_from(edges_iterable): the next edge row is
\* unpacked, decoded, mapped and inserted
AddEdgeFromList ==
    /\ script = "lists"
    /\ pc = "add_edges"
    /\ ei < Len(edges_list)
    /\ LET r == EdgeRecord(edges_list[ei + 1], mapping_properties)
       IN  IF r.err # ""
           THEN /\ Raise(r.err)
                /\ UNCHANGED <<nx_edges, ei, graph>>
           ELSE /\ nx_edges' = Append(nx_edges, r.rec)
                /\ IF r.isdict
                   THEN /\ graph' = add_edge(graph, r.rec[1], r.rec[2], r.rec[3])
                        /\ ei' = ei + 1
                        /\ UNCHANGED <<pc, err>>
                   ELSE \* datadict.update(dd) on a non-mapping, after the
                        \* endpoints were created
                        /\ graph' = touch_node(touch_node(graph, r.rec[1]), r.rec[2])
                        /\ Raise("type")
                        /\ UNCHANGED ei
    /\ UNCHANGED <<InputVars, CallVars, fh, pos, ListVars, DfVars, nx_nodes, ni, returned, first_graph>>

\* the edges are exhausted: add_edges_from returns
EdgesExhausted ==
    /\ pc = "add_edges"
    /\ ei = (IF script = "lists" THEN Len(edges_list) ELSE Len(networkx_edges_df.rows))
    /\ pc' = "add_nodes"
    /\ UNCHANGED <<InputVars, CallVars, fh, pos, err, ListVars, DfVars, GraphVars>>

\* networkx_graph.add_nodes_from(nodes_iterable), one node row
AddNodeFromList ==
    /\ script = "lists"
    /\ pc = "add_nodes"
    /\ ni < Len(nodes_list)
    /\ LET r == NodeRecord(nodes_list[ni + 1], mapping_properties)
       IN  IF r.err # ""
           THEN /\ Raise(r.err)
                /\ UNCHANGED <<nx_nodes, ni, graph>>
           ELSE /\ nx_nodes' = Append(nx_nodes, r.rec)
                /\ IF r.isdict
                   THEN /\ graph' = add_node(graph, r.rec[1], r.rec[2])
                        /\ ni' = ni + 1
                        /\ UNCHANGED <<pc, err>>
                   ELSE \* newdict.update(ndict) on a non-mapping
                        /\ Raise("type")
                        /\ UNCHANGED <<ni, graph>>
    /\ UNCHANGED <<InputVars, CallVars, fh, pos, ListVars, DfVars, nx_edges, ei, returned, first_graph>>

\* the nodes are exhausted: the graph function returns the graph and
\* pipeline returns its triple
NodesExhausted ==
    /\ pc = "add_nodes"
    /\ ni = (IF script = "lists" THEN Len(nodes_list) ELSE Len(networkx_nodes_df.rows))
    /\ pc' = "done"
    /\ returned' = TRUE
    /\ UNCHANGED <<InputVars, CallVars, fh, pos, err, ListVars, DfVars, nx_nodes, nx_edges,
                   ni, ei, graph, first_graph>>

-----------------------------------------------------------------------------
(* SC2: pandas tables                                                      *)
(* A table is [columns, index, rows]: the column names in order, the row   *)
(* labels in order and, per record, a function from column name to cell.   *)

EmptyTable == [columns |-> <<>>, index |-> <<>>, rows |-> <<>>]

Range(seq) == {seq[i] : i \in DOMAIN seq}

Keep(seq, S) == SelectSeq(seq, LAMBDA c : c \in S)

IsNumericText(text) == text \in {"0", "1", "2", "3", "4", "5", "6", "7", "8", "9"}

\* the default row labels 0 .. n-1
RangeIndex(n) == [i \in 1..n |-> Num(ToString(i - 1))]

Failed(e) == [err |-> e, df |-> EmptyTable]
Table(df) == [err |-> "", df |-> df]

\* pd.read_csv(file_path, delimiter=","): the first line names the columns;
\* a first record longer than the header makes its leading fields the row
\* labels; a later record longer than that is a parser error; a shorter
\* record is padded with NaN; a column whose fields are all numeric becomes
\* numeric; without leading fields the row labels are 0 .. n-1
read_csv(file) ==
    IF ~file.exists THEN Failed("file")
    ELSE IF file.lines = <<>> THEN Failed("empty")
    ELSE LET header == file.lines[1]
             data   == Tail(file.lines)
             width  == IF data # <<>> /\ Len(data[1]) > Len(header)
                       THEN Len(data[1]) ELSE Len(header)
             lead   == width - Len(header)
             Has(i, j)   == lead + j <= Len(data[i])
             Field(i, j) == data[i][lead + j]
             Numeric(j)  == /\ \E i \in DOMAIN data : Has(i, j)
                            /\ \A i \in DOMAIN data : Has(i, j) => IsNumericText(Field(i, j))
             Cell(i, j)  == IF ~Has(i, j) THEN NaN
                            ELSE IF Numeric(j) THEN Num(Field(i, j))
                            ELSE Str(Field(i, j))
             Col(c)      == CHOOSE j \in DOMAIN header : header[j] = c
             Label(i)    == [j \in 1..lead |-> Cell(i, j - lead)]
         IN  IF \E i \in DOMAIN data : Len(data[i]) > width THEN Failed("malformed")
             ELSE Table([columns |-> header,
                         index |-> IF lead = 0 THEN RangeIndex(Len(data))
                                   ELSE [i \in DOMAIN data |->
                                           IF lead = 1 THEN Label(i)[1] ELSE Label(i)],
                         rows |-> [i \in DOMAIN data |->
                                     [c \in Range(header) |-> Cell(i, Col(c))]]])

\* position of a row label in an index without duplicates
Loc(index, label) == CHOOSE i \in DOMAIN index : index[i] = label

\* pd.concat([df, series], axis=1) for a series of the name `name` with the
\* default row labels: the rows are joined on their labels.  Equal indexes
\* join row by row; otherwise the labels of both are united (those of df
\* first), a cell of a label one side lacks is NaN, and a duplicated label
\* cannot be reindexed.
concat(df, name, values) ==
    LET sidx == RangeIndex(Len(values))
    IN  IF df.index = sidx
        THEN Table([columns |-> Append(df.columns, name),
                    index |-> df.index,
                    rows |-> [i \in DOMAIN df.rows |->
                                [c \in Range(df.columns) \cup {name} |->
                                    IF c = name THEN values[i] ELSE df.rows[i][c]]]])
        ELSE IF Cardinality(Range(df.index)) # Len(df.index) THEN Failed("index")
        ELSE LET labels == df.index \o SelectSeq(sidx, LAMBDA l : l \notin Range(df.index))
             IN  Table([columns |-> Append(df.columns, name),
                        index |-> labels,
                        rows |-> [i \in DOMAIN labels |->
                           [c \in Range(df.columns) \cup {name} |->
                               IF c = name
                               THEN (IF labels[i] \in Range(sidx)
                                     THEN values[Loc(sidx, labels[i])] ELSE NaN)
                               ELSE (IF labels[i] \in Range(df.index)
                                     THEN df.rows[Loc(df.index, labels[i])][c] ELSE NaN)]]])

\* what a function that returns a frame hands back: the frame, and whether
\* it is a new object or the frame it was given
Returned(r, obj) == [err |-> r.err, df |-> r.df, obj |-> obj]

\* row_to_dictionary(df, columns_to_keep_intact), the list branch: the
\* columns not kept are zipped into one dictionary per record, and the kept
\* columns are concatenated with that series into a new frame
row_to_dictionary_in_place(df, keep_intact) ==
    IF ~(Range(keep_intact) \subseteq Range(df.columns)) THEN Returned(Failed("config"), "new")
    ELSE LET remaining == Keep(df.columns, Range(df.columns) \ Range(keep_intact))
             kept      == Keep(df.columns, Range(keep_intact))
         IN  Returned(concat([df EXCEPT !.columns = kept],
                             "temp_dicts",
                             [i \in DOMAIN df.rows |->
                                 [x \in Range(remaining) |-> df.rows[i][x]]]), "arg")

row_to_dictionary(df, keep_intact) ==
    IF ~(Range(keep_intact) \subseteq Range(df.columns)) THEN Returned(Failed("config"), "new")
    ELSE LET remaining == Keep(df.columns, Range(df.columns) \ Range(keep_intact))
             kept      == Keep(df.columns, Range(keep_intact))
         IN  Returned(concat([df EXCEPT !.columns = kept],
                             "temp_dicts",
                             [i \in DOMAIN df.rows |->
                                 [x \in Range(remaining) |-> df.rows[i][x]]]), "new")

\* merge_properties(df, column_to_keep, column_to_merge): the literal of
\* every record is decoded and assigned to the column of df, then every
\* record is merged and assigned again; the result is a new frame without
\* the merged column.  arg is df as the two assignments leave it.
merge_properties(df, column_to_keep, column_to_merge) ==
    LET Lit(i) == IF df.rows[i][column_to_keep].k # "str" THEN DecodeError
                  ELSE literal_eval(df.rows[i][column_to_keep].s)
        Value(i) == IF Lit(i).kind = "dict" THEN Lit(i).d
                    ELSE Lex(df.rows[i][column_to_keep].s)[1]
        Assign(F(_)) == [df EXCEPT !.rows = [i \in DOMAIN df.rows |->
                                               [df.rows[i] EXCEPT ![column_to_keep] = F(i)]]]
        decoded == Assign(Value)
        Merge(i) == DictUpdate(Lit(i).d, df.rows[i][column_to_merge])
        merged  == Assign(Merge)
        rest    == Keep(df.columns, Range(df.columns) \ {column_to_merge})
    IN  IF column_to_keep \notin Range(df.columns)
        THEN [err |-> "config", df |-> EmptyTable, arg |-> df]
        ELSE IF \E i \in DOMAIN df.rows : Lit(i).kind = "error"
        THEN [err |-> "decode", df |-> EmptyTable, arg |-> df]
        ELSE IF \E i \in DOMAIN df.rows :
                    Lit(i).kind = "scalar" \/ df.rows[i][column_to_merge] = NaN
        THEN [err |-> "type", df |-> EmptyTable, arg |-> decoded]
        ELSE [err |-> "",
              df |-> [columns |-> rest,
                      index |-> df.index,
                      rows |-> [i \in DOMAIN df.rows |->
                                  [c \in Range(rest) |-> merged.rows[i][c]]]],
              arg |-> merged]

\* change_column_names(df, column_names_dict)
change_column_names(df, names) ==
    LET New(c) == IF c \in DOMAIN names THEN names[c] ELSE c
        Old(n) == CHOOSE c \in Range(df.columns) : New(c) = n
    IN  [columns |-> [j \in DOMAIN df.columns |-> New(df.columns[j])],
         index |-> df.index,
         rows |-> [i \in DOMAIN df.rows |->
                     [n \in {New(c) : c \in Range(df.columns)} |-> df.rows[i][Old(n)]]]]

\* df_to_networkx_nodes and df_to_networkx_edges: the same pipe of three.
\* raw is the frame the caller passed, as the pipe leaves it: the
\* assignments of merge_properties land on the frame row_to_dictionary
\* returned.
df_to_networkx(df, keep_intact, names) ==
    LET a == row_to_dictionary(df, keep_intact)
        b == IF a.err # "" THEN [err |-> a.err, df |-> EmptyTable, arg |-> df]
             ELSE merge_properties(a.df, "properties", "temp_dicts")
        raw == IF a.obj = "arg" THEN b.arg ELSE df
    IN  IF b.err # "" THEN [err |-> b.err, df |-> EmptyTable, raw |-> raw]
        ELSE [err |-> "", df |-> change_column_names(b.df, names), raw |-> raw]

\* the arguments pipeline passes
columns_names_nodes == [c \in {"UniProt ID", "properties"} |->
                           IF c = "UniProt ID" THEN "source" ELSE "properties"]
columns_names_edges == [c \in {"Source ID", "Target ID", "properties"} |->
                           IF c = "Source ID" THEN "source"
                           ELSE IF c = "Target ID" THEN "target" ELSE "properties"]
keep_intact_nodes == <<"UniProt ID", "properties">>
keep_intact_edges == <<"Source ID", "Target ID", "properties">>

\* create_dataframes: nodes_df = from_csv_to_pandasdf(file_path_nodes)
ReadCsvNodes ==
    /\ script = "pandas"
    /\ pc = "read_nodes"
    /\ LET r == read_csv(nodes_file)
       IN  IF r.err # ""
           THEN Raise(r.err) /\ UNCHANGED nodes_df
           ELSE nodes_df' = r.df /\ pc' = "read_edges" /\ UNCHANGED err
    /\ UNCHANGED <<InputVars, CallVars, fh, pos, ListVars, edges_df, networkx_nodes_df,
                   networkx_edges_df, GraphVars>>

\* create_dataframes: edges_df = from_csv_to_pandasdf(file_path_edges)
ReadCsvEdges ==
    /\ pc = "read_edges"
    /\ LET r == read_csv(edges_file)
       IN  IF r.err # ""
           THEN Raise(r.err) /\ UNCHANGED edges_df
           ELSE edges_df' = r.df /\ pc' = "nx_nodes" /\ UNCHANGED err
    /\ UNCHANGED <<InputVars, CallVars, fh, pos, ListVars, nodes_df, networkx_nodes_df,
                   networkx_edges_df, GraphVars>>

\* pipeline: the first argument of networkx_graph_from_pandas
DfToNetworkxNodes ==
    /\ pc = "nx_nodes"
    /\ LET r == df_to_networkx(nodes_df, keep_intact_nodes, columns_names_nodes)
       IN  /\ nodes_df' = r.raw
           /\ IF r.err # ""
              THEN Raise(r.err) /\ UNCHANGED networkx_nodes_df
              ELSE networkx_nodes_df' = r.df /\ pc' = "nx_edges" /\ UNCHANGED err
    /\ UNCHANGED <<InputVars, CallVars, fh, pos, ListVars, edges_df,
                   networkx_edges_df, GraphVars>>

\* pipeline: the second argument; then networkx_graph_from_pandas starts on
\* the fresh nx.DiGraph()
DfToNetworkxEdges ==
    /\ pc = "nx_edges"
    /\ LET r == df_to_networkx(edges_df, keep_intact_edges, columns_names_edges)
       IN  /\ edges_df' = r.raw
           /\ IF r.err # ""
              THEN Raise(r.err) /\ UNCHANGED networkx_edges_df
              ELSE networkx_edges_df' = r.df /\ pc' = "add_edges" /\ UNCHANGED err
    /\ UNCHANGED <<InputVars, CallVars, fh, pos, ListVars, nodes_df,
                   networkx_nodes_df, GraphVars>>

\* add_edges_from over itertuples of (source, target, properties), one record
AddEdgeFromDf ==
    /\ script = "pandas"
    /\ pc = "add_edges"
    /\ ei < Len(networkx_edges_df.rows)
    /\ LET row == networkx_edges_df.rows[ei + 1]
           rec == <<row["source"], row["target"], row["properties"]>>
       IN  /\ nx_edges' = Append(nx_edges, rec)
           /\ graph' = add_edge(graph, rec[1], rec[2], rec[3])
    /\ ei' = ei + 1
    /\ UNCHANGED <<InputVars, CallVars, pc, err, fh, pos, ListVars, DfVars, nx_nodes, ni,
                   returned, first_graph>>

\* add_nodes_from over itertuples of (source, properties), one record
AddNodeFromDf ==
    /\ script = "pandas"
    /\ pc = "add_nodes"
    /\ ni < Len(networkx_nodes_df.rows)
    /\ LET row == networkx_nodes_df.rows[ni + 1]
           rec == <<row["source"], row["properties"]>>
       IN  /\ nx_nodes' = Append(nx_nodes, rec)
           /\ graph' = add_node(graph, rec[1], rec[2])
    /\ ni' = ni + 1
    /\ UNCHANGED <<InputVars, CallVars, pc, err, fh, pos, ListVars, DfVars, nx_edges, ei,
                   returned, first_graph>>

-----------------------------------------------------------------------------
(* SC2: df_to_networkx_nodes / df_to_networkx_edges called directly on a   *)
(* table read from a file                                                  *)

\* node records of further shapes: a property key that is also the name of
\* a collapsed column, and records one field longer than the header
FrameRows ==
    NodeRows \cup
    { <<"P3", "p", "{'label': 2}">>,
      <<"1", "P1", "p", "{'a': 1}">>,
      <<"0", "P2", "q", "{'b': 2}">> }

FrameFiles ==
    {Missing, EmptyFile} \cup
    {FileOf(NodeHeader(st), rows) : st \in HeaderStyles, rows \in SeqsUpTo(FrameRows, MaxNodeRows)}

\* the columns_to_keep_intact and column_names_dict arguments tried
KeepIntactLists ==
    { keep_intact_nodes, <<"properties">>, <<"UniProt ID", "node_label", "properties">>,
      <<"UniProt ID">> }

NameMaps == {columns_names_nodes, [c \in {"UniProt ID"} |-> "id"]}

\* from_csv_to_pandasdf(file_path)
CallReadCsv ==
    /\ pc = "call_read_csv"
    /\ LET r == read_csv(nodes_file)
       IN  IF r.err # ""
           THEN Raise(r.err) /\ UNCHANGED nodes_df
           ELSE nodes_df' = r.df /\ pc' = "call_df_to_networkx" /\ UNCHANGED err
    /\ UNCHANGED <<InputVars, CallVars, fh, pos, ListVars, edges_df, networkx_nodes_df,
                   networkx_edges_df, GraphVars>>

\* df_to_networkx_nodes(nodes_df, columns_to_keep_intact, column_names_dict)
CallDfToNetworkx ==
    /\ pc = "call_df_to_networkx"
    /\ \E keep_intact \in KeepIntactLists, names \in NameMaps :
          LET r == df_to_networkx(nodes_df, keep_intact, names)
          IN  /\ columns_to_keep_intact' = keep_intact
              /\ column_names_dict' = names
              /\ nodes_df' = r.raw
              /\ IF r.err # ""
                 THEN Raise(r.err) /\ UNCHANGED networkx_nodes_df
                 ELSE networkx_nodes_df' = r.df /\ pc' = "transformed" /\ UNCHANGED err
    /\ UNCHANGED <<InputVars, default_graph, ncalls, fh, pos, ListVars, edges_df,
                   networkx_edges_df, GraphVars>>

-----------------------------------------------------------------------------
(* Assembling a second time *)

RECURSIVE add_edges_from(_, _)
add_edges_from(g, ebunch) ==
    IF ebunch = <<>> THEN g
    ELSE add_edges_from(add_edge(g, ebunch[1][1], ebunch[1][2], ebunch[1][3]), Tail(ebunch))

RECURSIVE add_nodes_from(_, _)
add_nodes_from(g, nodes) ==
    IF nodes = <<>> THEN g
    ELSE add_nodes_from(add_node(g, nodes[1][1], nodes[1][2]), Tail(nodes))

\* the graph function called again with the same normalized records and
\* graph_type = the graph it returned: all edges, then all nodes
Rebuild ==
    /\ pc = "done"
    /\ first_graph' = graph
    /\ graph' = add_nodes_from(add_edges_from(graph, nx_edges), nx_nodes)
    /\ pc' = "rebuilt"
    /\ UNCHANGED <<InputVars, CallVars, fh, pos, err, ListVars, DfVars, nx_nodes, nx_edges,
                   ni, ei, returned>>

-----------------------------------------------------------------------------
(* The graph functions called directly, several times                      *)
(* def networkx_graph_from_lists(..., graph_type=nx.DiGraph()): the        *)
(* default is one graph object, made when the function is defined; a call  *)
(* that omits graph_type populates and returns that object.                *)

\* the normalized records of the well-formed rows of the datasets
CallNodeRecords ==
    {NodeRecord(r, TRUE).rec : r \in {x \in NodeRows : NodeRecord(x, TRUE).err = ""}}

CallEdgeRecords ==
    {EdgeRecord(r, TRUE).rec : r \in {x \in EdgeRows : EdgeRecord(x, TRUE).err = ""}}

\* the iterables of a call: no record or one
CallNodeInputs == {<<>>} \cup {<<r>> : r \in CallNodeRecords}
CallEdgeInputs == {<<>>} \cup {<<r>> : r \in CallEdgeRecords}

\* the body of the graph function on the object bound to graph_type
Populate(graph_type, nodes, edges) ==
    add_nodes_from(add_edges_from(graph_type, edges), nodes)

\* networkx_graph_from_lists(nodes, edges) / networkx_graph_from_pandas(...)
\* with graph_type omitted
CallGraphDefault ==
    /\ pc \in {"call_graph", "called"}
    /\ ncalls < MaxCalls
    /\ \E nodes \in CallNodeInputs, edges \in CallEdgeInputs :
          LET g == Populate(default_graph[script], nodes, edges)
          IN  /\ nx_nodes' = nodes
              /\ nx_edges' = edges
              /\ graph' = g
              /\ default_graph' = [default_graph EXCEPT ![script] = g]
    /\ ncalls' = ncalls + 1
    /\ pc' = "called"
    /\ UNCHANGED <<InputVars, columns_to_keep_intact, column_names_dict, fh, pos, err,
                   ListVars, DfVars, ni, ei, returned, first_graph>>

\* the same call with graph_type=nx.DiGraph(), a new graph
CallGraphFresh ==
    /\ pc \in {"call_graph", "called"}
    /\ ncalls < MaxCalls
    /\ \E nodes \in CallNodeInputs, edges \in CallEdgeInputs :
          /\ nx_nodes' = nodes
          /\ nx_edges' = edges
          /\ graph' = Populate(EmptyGraph, nodes, edges)
    /\ ncalls' = ncalls + 1
    /\ pc' = "called"
    /\ UNCHANGED <<InputVars, columns_to_keep_intact, column_names_dict, default_graph, fh, pos, err,
                   ListVars, DfVars, ni, ei, returned, first_graph>>

-----------------------------------------------------------------------------
(* The specifications *)

InitRun ==
    /\ fh = [f \in {"nodes", "edges"} |-> "unopened"]
    /\ pos = [f \in {"nodes", "edges"} |-> 0]
    /\ nodes_list = <<>>
    /\ edges_list = <<>>
    /\ nodes_df = EmptyTable
    /\ edges_df = EmptyTable
    /\ networkx_nodes_df = EmptyTable
    /\ networkx_edges_df = EmptyTable
    /\ nx_nodes = <<>>
    /\ nx_edges = <<>>
    /\ ni = 0
    /\ ei = 0
    /\ graph = EmptyGraph
    /\ err = ""
    /\ returned = FALSE
    /\ first_graph = EmptyGraph
    /\ columns_to_keep_intact = <<>>
    /\ column_names_dict = <<>>
    /\ default_graph = [f \in {"lists", "pandas"} |-> EmptyGraph]
    /\ ncalls = 0

\* the list script skips the header line whatever it holds: one header
\* style is enough for it
InitFiles ==
    /\ nodes_file \in NodeFiles(IF script = "lists" THEN {"reserved"} ELSE HeaderStyles)
    /\ edges_file \in EdgeFiles(StyleOf(nodes_file))

\* pipeline(file_path_nodes, file_path_edges) of either script
Init ==
    /\ script \in {"lists", "pandas"}
    /\ InitFiles
    /\ header_nodes = TRUE
    /\ header_edges = TRUE
    /\ mapping_properties = TRUE
    /\ pc = IF script = "lists" THEN "open_nodes" ELSE "read_nodes"
    /\ InitRun

\* the functions of SC1 called with any flags
InitCalls ==
    /\ script = "lists"
    /\ InitFiles
    /\ header_nodes \in BOOLEAN
    /\ header_edges \in BOOLEAN
    /\ mapping_properties \in BOOLEAN
    /\ pc = "open_nodes"
    /\ InitRun

NextLists ==
    \/ OpenFile("nodes")
    \/ SkipHeader("nodes")
    \/ YieldRow("nodes")
    \/ ReaderExhausted("nodes")
    \/ OpenFile("edges")
    \/ SkipHeader("edges")
    \/ YieldRow("edges")
    \/ ReaderExhausted("edges")
    \/ AddEdgeFromList
    \/ EdgesExhausted
    \/ AddNodeFromList
    \/ NodesExhausted
    \/ Rebuild

Next ==
    \/ NextLists
    \/ ReadCsvNodes
    \/ ReadCsvEdges
    \/ DfToNetworkxNodes
    \/ DfToNetworkxEdges
    \/ AddEdgeFromDf
    \/ AddNodeFromDf

Spec == Init /\ [][Next]_vars

SpecCalls == InitCalls /\ [][NextLists]_vars

\* the table functions of SC2 called directly
InitFrames ==
    /\ script = "pandas"
    /\ nodes_file \in FrameFiles
    /\ edges_file = Missing
    /\ header_nodes = TRUE
    /\ header_edges = TRUE
    /\ mapping_properties = TRUE
    /\ pc = "call_read_csv"
    /\ InitRun

NextFrames ==
    \/ CallReadCsv
    \/ CallDfToNetworkx

SpecFrames == InitFrames /\ [][NextFrames]_vars

\* the graph function of either script called directly, up to MaxCalls times
InitAssemble ==
    /\ script \in {"lists", "pandas"}
    /\ nodes_file = Missing
    /\ edges_file = Missing
    /\ header_nodes = TRUE
    /\ header_edges = TRUE
    /\ mapping_properties = TRUE
    /\ pc = "call_graph"
    /\ InitRun

NextAssemble ==
    \/ CallGraphDefault
    \/ CallGraphFresh

SpecAssemble == InitAssemble /\ [][NextAssemble]_vars

-----------------------------------------------------------------------------
(* Notions the properties share *)

Terminal == pc \in {"raised", "done", "rebuilt"}

\* the records of a file below its header line
DataRows(file) == IF file.lines = <<>> THEN <<>> ELSE Tail(file.lines)

\* the key-wise union of a sequence of dictionaries: every key of any of
\* them, with the value of the last dictionary that has the key
Merged(dicts) ==
    LET Last(x) == CHOOSE i \in DOMAIN dicts :
                       /\ x \in DOMAIN dicts[i]
                       /\ \A j \in DOMAIN dicts : j > i => x \notin DOMAIN dicts[j]
    IN  [x \in UNION {DOMAIN dicts[i] : i \in DOMAIN dicts} |-> dicts[Last(x)][x]]

\* the Properties of the node records of identifier n, in order
NodePropsOf(n) ==
    LET recs == SelectSeq(nx_nodes, LAMBDA r : r[1] = n)
    IN  [i \in DOMAIN recs |-> recs[i][2]]

\* the Properties of the edge records of the pair e, in order
EdgePropsOf(e) ==
    LET recs == SelectSeq(nx_edges, LAMBDA r : <<r[1], r[2]>> = e)
    IN  [i \in DOMAIN recs |-> recs[i][3]]

EdgePairs == {<<nx_edges[i][1], nx_edges[i][2]>> : i \in DOMAIN nx_edges}
Endpoints == {e[1] : e \in EdgePairs} \cup {e[2] : e \in EdgePairs}
NodeIds   == {nx_nodes[i][1] : i \in DOMAIN nx_nodes}

-----------------------------------------------------------------------------
(* C1: for a valid pair of CSVs the dataframe variant produces the same    *)
(* (node id, Properties) pairs and the same (source, target, Properties)   *)
(* triples as the list variant does on the same files.                     *)
C1_BuildersAgree ==
    (script = "pandas" /\ pc = "done") =>
        /\ {<<networkx_nodes_df.rows[i]["source"], networkx_nodes_df.rows[i]["properties"]>> :
                i \in DOMAIN networkx_nodes_df.rows}
           = {NodeRecord(r, TRUE).rec : r \in Range(DataRows(nodes_file))}
        /\ {<<networkx_edges_df.rows[i]["source"], networkx_edges_df.rows[i]["target"],
              networkx_edges_df.rows[i]["properties"]>> : i \in DOMAIN networkx_edges_df.rows}
           = {EdgeRecord(r, TRUE).rec : r \in Range(DataRows(edges_file))}

(* C2: edge-before-node ordering law.  In the returned graph an edge       *)
(* endpoint that no node row names has empty Properties, and an edge       *)
(* endpoint the node dataset names carries exactly the dataset's           *)
(* Properties for it (those of its row; of its rows merged in order when   *)
(* it has several): nothing of the auto-created empty node survives.       *)
C2_EdgeBeforeNode ==
    pc = "done" =>
        \A n \in Endpoints :
            /\ n \in DOMAIN graph.node
            /\ n \notin NodeIds => graph.node[n] = EmptyDict
            /\ n \in NodeIds => graph.node[n] = Merged(NodePropsOf(n))
            /\ Len(NodePropsOf(n)) = 1 => graph.node[n] = NodePropsOf(n)[1]

C2_Witness ==
    /\ pc = "done"
    /\ \E n \in Endpoints : n \notin NodeIds
    /\ \E n \in Endpoints : Len(NodePropsOf(n)) = 1 /\ graph.node[n] # EmptyDict

(* C3 as stated: the one edge of a repeated (source, target) pair carries  *)
(* exactly the Properties of the last row of the pair.                     *)
C3_LastEdgeRowOnly ==
    pc = "done" =>
        \A e \in EdgePairs :
            /\ e \in DOMAIN graph.adj
            /\ graph.adj[e] = <<EdgePropsOf(e)[Len(EdgePropsOf(e))]>>

(* C3 amended: the graph has exactly one edge per distinct (source,        *)
(* target) pair and no other edge, and that edge's Properties are the      *)
(* key-wise union of the Properties of all rows of the pair, a later row   *)
(* winning on a key both have.                                             *)
C3_EdgeRowsMerged ==
    pc = "done" =>
        /\ DOMAIN graph.adj = EdgePairs
        /\ \A e \in EdgePairs : graph.adj[e] = <<Merged(EdgePropsOf(e))>>

C3_Witness ==
    /\ pc = "done"
    /\ \E e \in EdgePairs :
          /\ Len(EdgePropsOf(e)) = 2
          /\ DOMAIN EdgePropsOf(e)[1] \ DOMAIN EdgePropsOf(e)[2] # {}
          /\ \E x \in DOMAIN EdgePropsOf(e)[1] \cap DOMAIN EdgePropsOf(e)[2] :
                EdgePropsOf(e)[1][x] # EdgePropsOf(e)[2][x]

(* C4 as stated: the one node of a repeated identifier carries exactly the *)
(* Properties of the last row of the identifier.                           *)
C4_LastNodeRowOnly ==
    pc = "done" =>
        \A n \in NodeIds :
            /\ n \in DOMAIN graph.node
            /\ graph.node[n] = NodePropsOf(n)[Len(NodePropsOf(n))]

(* C4 amended: the graph has exactly one node per identifier of the node   *)
(* dataset, and its Properties are the key-wise union of the Properties of *)
(* all rows of the identifier, a later row winning on a key both have.     *)
C4_NodeRowsMerged ==
    pc = "done" =>
        /\ DOMAIN graph.node = NodeIds \cup Endpoints
        /\ \A n \in NodeIds : graph.node[n] = Merged(NodePropsOf(n))

C4_Witness ==
    /\ pc = "done"
    /\ \E n \in NodeIds :
          /\ Len(NodePropsOf(n)) = 2
          /\ DOMAIN NodePropsOf(n)[1] \ DOMAIN NodePropsOf(n)[2] # {}
          /\ \E x \in DOMAIN NodePropsOf(n)[1] \cap DOMAIN NodePropsOf(n)[2] :
                NodePropsOf(n)[1][x] # NodePropsOf(n)[2][x]

(* C5: idempotence.  Assembling a second time from the same normalized     *)
(* records into the graph the first assembly returned leaves the node set, *)
(* the edge set and every Properties mapping as they were.                 *)
C5_RebuildIdempotent ==
    pc = "rebuilt" => graph = first_graph

C5_Witness ==
    /\ pc = "rebuilt"
    /\ \E e \in EdgePairs : Len(EdgePropsOf(e)) = 2
    /\ NodeIds # {}

-----------------------------------------------------------------------------
(* Defects of a dataset, read off the files *)

\* the property texts of the datasets that are no Python literal
InvalidTexts == {"{'a': 1", "oops"}

\* a file every line of which the csv reader can read, below a header line
Readable(file) == file.exists /\ file.lines # <<>> /\ Oversize \notin Range(file.lines)

\* the defect of a record that should have n fields
Defect(row, n) ==
    IF Len(row) # n THEN "malformed"
    ELSE IF row[n] \in InvalidTexts THEN "decode"
    ELSE ""

\* the defects in the order the list pipeline meets the records: the edge
\* records, then the node records
Defects ==
    [i \in DOMAIN DataRows(edges_file) |-> Defect(DataRows(edges_file)[i], 5)]
    \o [i \in DOMAIN DataRows(nodes_file) |-> Defect(DataRows(nodes_file)[i], 3)]

FirstDefect ==
    LET D == Defects
    IN  IF \A i \in DOMAIN D : D[i] = "" THEN ""
        ELSE D[CHOOSE i \in DOMAIN D : D[i] # "" /\ \A j \in 1..(i - 1) : D[j] = ""]

HasDefect(kind) ==
    \/ \E r \in Range(DataRows(edges_file)) : Defect(r, 5) = kind
    \/ \E r \in Range(DataRows(nodes_file)) : Defect(r, 3) = kind

(* C6: when the properties text of a node or edge record is no valid       *)
(* literal, pipeline never returns: no graph, full or partial, reaches the *)
(* caller; the run ends in the raised error with nothing left to run, and  *)
(* when the invalid literal is the only defect of the dataset the error is *)
(* the decode error.                                                       *)
C6_DecodeErrorNoGraph ==
    /\ HasDefect("decode") => ~returned /\ pc \notin {"done", "rebuilt"}
    /\ pc = "raised" => ~returned /\ ~ENABLED Next
    /\ (/\ HasDefect("decode") /\ ~HasDefect("malformed")
        /\ Readable(nodes_file) /\ Readable(edges_file)
        /\ Terminal) => pc = "raised" /\ err = "decode"

C6_Witness ==
    /\ script = "lists"
    /\ pc = "raised"
    /\ err = "decode"
    /\ DOMAIN graph.adj # {}
    /\ ~returned

(* C7: the handle load_csv_generator opens is open only while its reader   *)
(* is skipping the header or yielding rows; once the run has ended, by     *)
(* return or by an error raised while a file was being read, no handle is  *)
(* open.                                                                   *)
C7_HandleClosed ==
    \A f \in {"nodes", "edges"} :
        /\ fh[f] = "open" => pc \in {PcHeader(f), PcRows(f)}
        /\ Terminal => fh[f] # "open"

C7_Witness ==
    /\ pc = "raised"
    /\ err = "read"
    /\ pos["edges"] = 2
    /\ fh["nodes"] = "closed"
    /\ fh["edges"] = "closed"

(* C8 as stated: with both files readable, a record whose field count is   *)
(* not that of its row type ends the list pipeline in the malformed-row    *)
(* error.                                                                  *)
C8_MalformedRowError ==
    (/\ script = "lists"
     /\ Readable(nodes_file) /\ Readable(edges_file)
     /\ HasDefect("malformed")
     /\ Terminal) => pc = "raised" /\ err = "malformed"

(* C8 amended, list pipeline: a missing nodes file, or a missing edges     *)
(* file after a readable nodes file, ends the run in the file-access       *)
(* error.  With both files readable, a record of the wrong field count     *)
(* keeps the pipeline from returning, and the run ends in the error of the *)
(* first defective record in processing order (edge records, then node     *)
(* records): the malformed-row error when that record has the wrong field  *)
(* count.  A raised error ends the run.                                    *)
C8_FirstDefectRaised ==
    script = "lists" =>
        /\ (~nodes_file.exists /\ Terminal) => pc = "raised" /\ err = "file"
        /\ (Readable(nodes_file) /\ ~edges_file.exists /\ Terminal) =>
               pc = "raised" /\ err = "file"
        /\ (Readable(nodes_file) /\ Readable(edges_file) /\ HasDefect("malformed")) =>
               /\ ~returned
               /\ Terminal => pc = "raised" /\ err = FirstDefect
        /\ pc = "raised" => ~ENABLED Next

C8_Witness ==
    /\ script = "lists"
    /\ pc = "raised"
    /\ err = "malformed"
    /\ fh["nodes"] = "closed"
    /\ fh["edges"] = "closed"
    /\ \E i \in DOMAIN nodes_list : Len(nodes_list[i]) # 3
    /\ DOMAIN graph.adj # {}

\* the rows load_csv_generator(path, header) is to yield
ExpectedRows(f) ==
    IF Header(f) THEN DataRows(File(f)) ELSE File(f).lines

Listed(f) == IF f = "nodes" THEN nodes_list ELSE edges_list

\* the reader of f ended in an error of its own
ReaderRaised(f) ==
    /\ pc = "raised"
    /\ err \in {"header", "read"}
    /\ fh[f] = "closed"
    /\ f = "nodes" => fh["edges"] = "unopened"

(* C9: for every content of a file the csv reader can read,                *)
(* load_csv_generator ends without an error, having yielded one tuple per  *)
(* row in file order: all rows but the first when header is true, all rows *)
(* when it is false.                                                       *)
C9_ReaderYieldsRows ==
    \A f \in {"nodes", "edges"} :
        (File(f).exists /\ Oversize \notin Range(File(f).lines)) =>
            /\ ~ReaderRaised(f)
            /\ fh[f] = "closed" => Listed(f) = ExpectedRows(f)

\* the Node Record of a raw node row
ExpectedNode(row) ==
    LET d == literal_eval(row[3]).d
    IN  <<Str(row[1]),
          IF mapping_properties
          THEN [x \in DOMAIN d \cup {"node_label"} |->
                   IF x = "node_label" THEN Str(row[2]) ELSE d[x]]
          ELSE d>>

\* the Edge Record of a raw edge row
ExpectedEdge(row) ==
    LET d == literal_eval(row[5]).d
    IN  <<Str(row[2]), Str(row[3]),
          IF mapping_properties
          THEN [x \in DOMAIN d \cup {"edge_id", "edge_label"} |->
                   IF x = "edge_id" THEN Str(row[1])
                   ELSE IF x = "edge_label" THEN Str(row[4]) ELSE d[x]]
          ELSE d>>

(* C10: the records to_networkx_nodes_format and to_networkx_edges_format  *)
(* have yielded are, in row order, the Node Records and Edge Records of    *)
(* the raw rows consumed so far: the identifiers with the decoded          *)
(* Properties, to which "node_label", or "edge_id" and "edge_label", are   *)
(* set when mapping is enabled; when the rows are exhausted there is one   *)
(* record per row.                                                         *)
C10_RecordMapping ==
    script = "lists" =>
        /\ Len(nx_nodes) <= Len(nodes_list)
        /\ Len(nx_edges) <= Len(edges_list)
        /\ \A i \in DOMAIN nx_nodes : nx_nodes[i] = ExpectedNode(nodes_list[i])
        /\ \A i \in DOMAIN nx_edges : nx_edges[i] = ExpectedEdge(edges_list[i])
        /\ pc \in {"add_nodes", "done"} => Len(nx_edges) = Len(edges_list)
        /\ pc = "done" => Len(nx_nodes) = Len(nodes_list)

C10_Witness ==
    /\ pc = "done"
    /\ mapping_properties
    /\ Len(nx_nodes) = 2
    /\ nx_nodes[1][1] # nx_nodes[2][1]
    /\ Len(nx_edges) = 2
    /\ nx_edges[1][3] # nx_edges[2][3]

(* C11: for every table and every keep-intact column list that exists in   *)
(* the table and contains "properties", the transformed table has one row  *)
(* per input record; the kept columns other than "properties" keep their   *)
(* values; the "properties" of each row is the decoded literal of the row  *)
(* updated with {column name: cell} over the columns of that row not kept  *)
(* intact (the collapsed column winning on a shared key); "temp_dicts" is  *)
(* absent and the columns carry the names of the name map.                 *)
C11_CollapsedDataframe ==
    (/\ pc = "transformed"
     /\ "properties" \in Range(columns_to_keep_intact)) =>
        LET in   == read_csv(nodes_file).df
            out  == networkx_nodes_df
            kept == Keep(in.columns, Range(columns_to_keep_intact))
            collapsed == Range(in.columns) \ Range(columns_to_keep_intact)
            New(c) == IF c \in DOMAIN column_names_dict THEN column_names_dict[c] ELSE c
        IN  /\ Len(out.rows) = Len(in.rows)
            /\ out.columns = [j \in DOMAIN kept |-> New(kept[j])]
            /\ "temp_dicts" \notin Range(out.columns)
            /\ \A i \in DOMAIN in.rows \cap DOMAIN out.rows :
                  /\ \A c \in Range(kept) \ {"properties"} :
                        out.rows[i][New(c)] = in.rows[i][c]
                  /\ out.rows[i][New("properties")]
                       = DictUpdate(literal_eval(in.rows[i]["properties"].s).d,
                                    [x \in collapsed |-> in.rows[i][x]])

\* the graph step of the run has started (or has raised): the readers are
\* done
RawBuilt ==
    \/ pc \in {"nx_nodes", "nx_edges", "add_edges", "add_nodes", "done", "rebuilt"}
    \/ pc = "raised" /\ err \in {"decode", "type", "config", "index"}

(* C12: the raw representation is not mutated after construction.  From    *)
(* the moment the readers are done, through the building of the normalized *)
(* records and the assembly of the graph, to the return of pipeline (or    *)
(* the error of a later step), nodes_list and edges_list are the rows of   *)
(* the files in file order, and nodes_df and edges_df are the tables       *)
(* read_csv made of the files: the same rows, columns and cells.           *)
C12_RawNotMutated ==
    RawBuilt =>
        IF script = "lists"
        THEN /\ nodes_list = DataRows(nodes_file)
             /\ edges_list = DataRows(edges_file)
        ELSE /\ nodes_df = read_csv(nodes_file).df
             /\ edges_df = read_csv(edges_file).df

C12_Witness ==
    /\ script = "pandas"
    /\ pc = "done"
    /\ returned
    /\ Len(nodes_df.rows) = 2
    /\ Len(edges_df.rows) = 2
    /\ \A i \in DOMAIN nodes_df.rows :
          /\ nodes_df.rows[i]["properties"].k = "str"
          /\ networkx_nodes_df.rows[i]["properties"] # nodes_df.rows[i]["properties"]
    /\ "temp_dicts" \notin Range(nodes_df.columns)
    /\ DOMAIN graph.adj # {}

(* C13: after any sequence of direct calls of the graph function, with or  *)
(* without the graph_type argument, the graph a call returns holds only    *)
(* nodes and edges of that call's own node and edge inputs: nothing an     *)
(* earlier call inserted.                                                  *)
C13_OnlyOwnInputs ==
    pc = "called" =>
        /\ DOMAIN graph.node \subseteq NodeIds \cup Endpoints
        /\ DOMAIN graph.adj \subseteq EdgePairs

\* the reader of f has read its file to the end and closed it
FullyRead(f) ==
    /\ fh[f] = "closed"
    /\ pos[f] = Len(File(f).lines)
    /\ Listed(f) = ExpectedRows(f)

\* a properties literal has been decoded, or is about to be: the graph
\* function is consuming the records
Decoding ==
    \/ pc \in {"add_edges", "add_nodes", "done", "rebuilt"}
    \/ pc = "raised" /\ err \in {"malformed", "decode", "type"}
    \/ nx_edges # <<>>
    \/ nx_nodes # <<>>
    \/ graph # EmptyGraph

(* C14: order of file access in the list pipeline.  The edges file is      *)
(* opened only after the nodes file has been read to its end and closed,   *)
(* so the two handles are never open together; and no properties literal   *)
(* is decoded, and no edge or node inserted, before both files have been   *)
(* read to the end and closed.                                             *)
C14_FileAccessOrder ==
    script = "lists" =>
        /\ ~(fh["nodes"] = "open" /\ fh["edges"] = "open")
        /\ fh["edges"] # "unopened" => FullyRead("nodes")
        /\ pc \in {"open_edges", "header_edges", "rows_edges"} => FullyRead("nodes")
        /\ Decoding => FullyRead("nodes") /\ FullyRead("edges")

C14_Witness ==
    /\ fh["nodes"] = "closed"
    /\ fh["edges"] = "open"
    /\ Len(nodes_list) = 2
    /\ Len(edges_list) = 1
    /\ pc = "rows_edges"
    /\ graph = EmptyGraph

=============================================================================
